---- MODULE Spec2Model ----
(***************************************************************************)
(* Model of generate_resume.py: the command line entry point, the loader,  *)
(* the document assembler and the PDF bridge.                              *)
(*                                                                         *)
(* Strings are modelled as sequences of tokens.  In a path ".docx" is the  *)
(* substring str.endswith and str.replace look for, ".pdf" is what replace *)
(* puts in its place, "/" is the path separator and "r" is any other text  *)
(* (no other token contains ".docx" and no two tokens overlap to form it). *)
(* Document text is a sequence of field values and literal pieces.         *)
(* The Russian literals of the source are written in ASCII.                *)
(***************************************************************************)
EXTENDS Integers, Sequences, FiniteSets, TLC

(* ------------------------------ bounds -------------------------------- *)
MaxPathLen == 3
MaxExp == 2
MaxBullets == 2

(* --------------------------- path strings ----------------------------- *)
DOCX == ".docx"
PDF == ".pdf"
SEP == "/"
\* the pieces a value of -o is made of
PathTok == {"r", SEP, DOCX}

RECURSIVE SeqsUpTo(_, _)
SeqsUpTo(S, n) ==
    IF n = 0 THEN {<<>>}
    ELSE LET shorter == SeqsUpTo(S, n - 1)
         IN shorter \cup {Append(s, x) : s \in {t \in shorter : Len(t) = n - 1}, x \in S}

\* the values of the -o option that are explored
OutputArgs == SeqsUpTo(PathTok, MaxPathLen) \ {<<>>}

\* str.endswith('.docx')
endswith_docx(s) == Len(s) > 0 /\ s[Len(s)] = DOCX

\* lines 267-269: append .docx when the name does not end with it
normalize_output(out) == IF ~endswith_docx(out) THEN out \o <<DOCX>> ELSE out

\* str.replace('.docx', '.pdf'): every occurrence, left to right
RECURSIVE replace_docx_pdf(_)
replace_docx_pdf(s) ==
    IF s = <<>> THEN <<>>
    ELSE (IF Head(s) = DOCX THEN <<PDF>> ELSE <<Head(s)>>) \o replace_docx_pdf(Tail(s))

\* the current working directory of the process
cwd == <<SEP, "cwd">>

\* index of the last "/" of p, 0 when there is none
RECURSIVE LastSep(_)
LastSep(p) ==
    IF p = <<>> THEN 0
    ELSE IF p[Len(p)] = SEP THEN Len(p) ELSE LastSep(SubSeq(p, 1, Len(p) - 1))

RECURSIVE rstrip_sep(_)
rstrip_sep(p) ==
    IF p # <<>> /\ p[Len(p)] = SEP THEN rstrip_sep(SubSeq(p, 1, Len(p) - 1)) ELSE p

AllSep(p) == \A i \in 1..Len(p) : p[i] = SEP

\* os.path.basename
basename(p) == SubSeq(p, LastSep(p) + 1, Len(p))

\* os.path.dirname: the head keeps its slashes only when it is all slashes
dirname(p) ==
    LET head == SubSeq(p, 1, LastSep(p))
    IN IF head # <<>> /\ ~AllSep(head) THEN rstrip_sep(head) ELSE head

\* os.path.join(a, b)
join(a, b) ==
    IF b # <<>> /\ b[1] = SEP THEN b
    ELSE IF a = <<>> \/ a[Len(a)] = SEP THEN a \o b
    ELSE a \o <<SEP>> \o b

\* the components of a path between slashes, each followed by one "/"
RECURSIVE Squeeze(_)
Squeeze(p) ==
    IF p = <<>> THEN <<>>
    ELSE IF Head(p) = SEP /\ (Len(p) = 1 \/ p[2] = SEP) THEN Squeeze(Tail(p))
    ELSE <<Head(p)>> \o Squeeze(Tail(p))

\* os.path.normpath (POSIX): exactly two leading slashes are kept, runs of
\* slashes collapse, a trailing slash is dropped
normpath(p) ==
    LET lead == IF p # <<>> /\ p[1] = SEP
                THEN (IF Len(p) >= 2 /\ p[2] = SEP /\ ~(Len(p) >= 3 /\ p[3] = SEP)
                      THEN <<SEP, SEP>> ELSE <<SEP>>)
                ELSE <<>>
        body == Squeeze(IF p # <<>> /\ p[1] # SEP THEN p ELSE
                        (IF rstrip_sep(p) = <<>> THEN <<>>
                         ELSE LET k == CHOOSE i \in 1..Len(p) : p[i] # SEP /\ \A j \in 1..(i-1) : p[j] = SEP
                              IN SubSeq(p, k, Len(p))))
    IN lead \o body

\* os.path.abspath
abspath(p) == normpath(IF p # <<>> /\ p[1] = SEP THEN p ELSE join(cwd, p))

(* --------------------------- JSON values ------------------------------ *)
\* A JSON value is tagged with its Python type; a dict has every key the
\* program reads, and a key the file leaves out holds Absent.
Absent == [t |-> "absent"]
Str(s) == [t |-> "str", v |-> s]
List(l) == [t |-> "list", v |-> l]
Dict(d) == [t |-> "dict", v |-> d]

\* dict.get(key, default)
get(d, key, default) == IF d.v[key].t = "absent" THEN default ELSE d.v[key]

\* dict.get(key): None when the key is missing
get1(d, key) == d.v[key]

\* Python truth value of a JSON value (None, '', [] and {} are false)
truthy(x) ==
    CASE x.t = "absent" -> FALSE
      [] x.t = "str" -> x.v # ""
      [] x.t = "list" -> x.v # <<>>
      [] x.t = "dict" -> \E k \in DOMAIN x.v : x.v[k].t # "absent"

\* isinstance(x, list)
is_list(x) == x.t = "list"

\* the {} default of data.get('personal_info', {})
EmptyPersonal ==
    Dict([name |-> Absent, email |-> Absent, phone |-> Absent,
          location |-> Absent, linkedin |-> Absent, github |-> Absent])

(* --------------------------- document text ---------------------------- *)
\* Text is a sequence of pieces: field values and the literals of the source.
BAR == " | "
COMMA == ", "

\* str.join over a list of texts
RECURSIVE str_join(_, _)
str_join(sep, texts) ==
    IF texts = <<>> THEN <<>>
    ELSE IF Len(texts) = 1 THEN texts[1]
    ELSE texts[1] \o <<sep>> \o str_join(sep, Tail(texts))

\* a Python string is empty when every piece of it is
IsEmptyText(text) == \A i \in 1..Len(text) : text[i] = ""

NoColor == <<>>
GRAY == <<100, 100, 100>>
NAVY == <<0, 51, 102>>

\* a run after set_run_font
set_run_font(text, font_size, bold, italic, color) ==
    [text |-> text, size |-> font_size, bold |-> bold, italic |-> italic, color |-> color]

\* A paragraph of the document: its style, its runs and, as history, the
\* part of the record it was rendered from (sec, idx).
Para(style, runs, sec, idx) == [style |-> style, runs |-> runs, sec |-> sec, idx |-> idx]

\* document.add_paragraph(text, style): a run only for non-empty text
RunsOf(text, font_size, bold, italic, color) ==
    IF IsEmptyText(text) THEN <<>> ELSE <<set_run_font(text, font_size, bold, italic, color)>>

add_heading(text, size, bold, sec, idx) ==
    Para("Heading 1", RunsOf(text, size, bold, FALSE, NoColor), sec, idx)

add_paragraph_with_style(text, size, sec, idx) ==
    Para("Normal", <<set_run_font(text, size, FALSE, FALSE, NoColor)>>, sec, idx)

add_section_header(text, sec, idx) ==
    Para("Normal", <<set_run_font(text, 14, TRUE, FALSE, NAVY)>>, sec, idx)

add_bullet_point(text, sec, idx) ==
    Para("List Bullet", RunsOf(text, 11, FALSE, FALSE, NoColor), sec, idx)

\* doc.add_paragraph() with no text
blank_paragraph(sec, idx) == Para("Normal", <<>>, sec, idx)

\* para = doc.add_paragraph(); run = para.add_run(text); set_run_font(run, ...)
run_paragraph(text, font_size, bold, italic, color, sec, idx) ==
    Para("Normal", <<set_run_font(text, font_size, bold, italic, color)>>, sec, idx)

(* ------------------------ the assembler's blocks ----------------------- *)
\* Each operator gives the paragraphs one part of generate_resume appends.

\* lines 90-92
name_heading(data) ==
    LET name == get(get(data, "personal_info", EmptyPersonal), "name", Str("Name Surname"))
    IN <<add_heading(<<name.v>>, 20, TRUE, "name", 0)>>

\* lines 95-106: the labelled contact fields that are present, in order
contact_info(data) ==
    LET personal == get(data, "personal_info", EmptyPersonal)
        item(key, label) == IF truthy(get1(personal, key))
                            THEN <<(<<label, personal.v[key].v>>)>> ELSE <<>>
    IN item("email", "Email: ") \o item("phone", "Phone: ")
       \o item("location", "Location: ") \o item("linkedin", "LinkedIn: ")
       \o item("github", "GitHub: ")

\* a variant of contact_line without the test of line 108
contact_line_unguarded(data) ==
    <<Para("Normal", RunsOf(str_join(BAR, contact_info(data)), 10, FALSE, FALSE, GRAY),
           "contact", 0)>>

\* lines 108-112
contact_line(data) ==
    IF contact_info(data) # <<>>
    THEN <<Para("Normal", RunsOf(str_join(BAR, contact_info(data)), 10, FALSE, FALSE, GRAY),
                "contact", 0)>>
    ELSE <<>>

\* lines 94-114: the contact line and the blank line after it
contact_block(data) == contact_line(data) \o <<blank_paragraph("spacer", 0)>>

\* a variant of summary_block that tests the key, not the text
summary_block_if_key(data) ==
    IF get1(data, "summary").t # "absent"
    THEN <<add_section_header(<<"About">>, "summary", 0),
           add_paragraph_with_style(<<data.v.summary.v>>, 11, "summary", 0),
           blank_paragraph("summary", 0)>>
    ELSE <<>>

\* lines 117-120
summary_block(data) ==
    IF truthy(get1(data, "summary"))
    THEN <<add_section_header(<<"About">>, "summary", 0),
           add_paragraph_with_style(<<data.v.summary.v>>, 11, "summary", 0),
           blank_paragraph("summary", 0)>>
    ELSE <<>>

\* a variant of title_line that skips an entry with neither field
title_line_if_any(exp, i) ==
    IF get1(exp, "position").t = "absent" /\ get1(exp, "company").t = "absent"
    THEN <<>>
    ELSE <<run_paragraph(<<get(exp, "position", Str("Position")).v, BAR,
                           get(exp, "company", Str("Company")).v>>,
                         12, TRUE, FALSE, NoColor, "experience", i)>>

\* lines 127-130
title_line(exp, i) ==
    LET title_company == <<get(exp, "position", Str("Position")).v, BAR,
                           get(exp, "company", Str("Company")).v>>
    IN <<run_paragraph(title_company, 12, TRUE, FALSE, NoColor, "experience", i)>>

\* lines 133-137
period_line(entry, sec, i) ==
    LET period == get(entry, "period", Str(""))
    IN IF truthy(period)
       THEN <<run_paragraph(<<period.v>>, 10, FALSE, TRUE, GRAY, sec, i)>>
       ELSE <<>>

\* a variant of description_lines without the isinstance test of line 141
description_lines_bullets(exp, i) ==
    IF truthy(get1(exp, "description"))
    THEN IF is_list(exp.v.description)
         THEN [k \in 1..Len(exp.v.description.v) |->
                  add_bullet_point(<<exp.v.description.v[k]>>, "experience", i)]
         ELSE <<add_bullet_point(<<exp.v.description.v>>, "experience", i)>>
    ELSE <<>>

\* lines 140-145
description_lines(exp, i) ==
    IF truthy(get1(exp, "description"))
    THEN IF is_list(exp.v.description)
         THEN [k \in 1..Len(exp.v.description.v) |->
                  add_bullet_point(<<exp.v.description.v[k]>>, "experience", i)]
         ELSE <<add_paragraph_with_style(<<exp.v.description.v>>, 11, "experience", i)>>
    ELSE <<>>

\* lines 125-147: one iteration of the experience loop
experience_entry(exp, i) ==
    title_line(exp, i) \o period_line(exp, "experience", i) \o description_lines(exp, i)
    \o <<blank_paragraph("experience", i)>>

\* lines 152-166: one iteration of the education loop
education_entry(edu, i) ==
    LET degree_school == <<get(edu, "degree", Str("Degree")).v, BAR,
                           get(edu, "school", Str("School")).v>>
    IN <<run_paragraph(degree_school, 12, TRUE, FALSE, NoColor, "education", i)>>
       \o period_line(edu, "education", i) \o <<blank_paragraph("education", i)>>

\* lines 169-173
skills_block(data) ==
    IF truthy(get1(data, "skills"))
    THEN LET skills == data.v.skills
             skills_text == IF is_list(skills)
                            THEN str_join(COMMA, [k \in 1..Len(skills.v) |-> <<skills.v[k]>>])
                            ELSE <<skills.v>>
         IN <<add_section_header(<<"Skills">>, "skills", 0),
              add_paragraph_with_style(skills_text, 11, "skills", 0),
              blank_paragraph("skills", 0)>>
    ELSE <<>>

\* lines 181-191: one item of a section whose content is a list
content_item(item, i) ==
    IF item.t = "dict"
    THEN <<Para("Normal",
                <<set_run_font(<<get(item, "key", Str("")).v, ": ">>, 11, TRUE, FALSE, NoColor),
                  set_run_font(<<get(item, "value", Str("")).v>>, 11, FALSE, FALSE, NoColor)>>,
                "additional", i)>>
    ELSE <<add_bullet_point(<<item.v>>, "additional", i)>>

RECURSIVE Flatten(_)
Flatten(seqs) == IF seqs = <<>> THEN <<>> ELSE Head(seqs) \o Flatten(Tail(seqs))

\* lines 178-194: one iteration of the additional_sections loop
additional_section(section, i) ==
    <<add_section_header(<<get(section, "title", Str("Section")).v>>, "additional", i)>>
    \o (IF is_list(get1(section, "content"))
        THEN Flatten([k \in 1..Len(section.v.content.v) |->
                         content_item(section.v.content.v[k], i)])
        ELSE <<add_paragraph_with_style(<<get(section, "content", Str("")).v>>, 11,
                                        "additional", i)>>)
    \o <<blank_paragraph("additional", i)>>

(* ------------------------- the explored inputs ------------------------- *)
Record(pi, su, ex, ed, sk, ad) ==
    Dict([personal_info |-> pi, summary |-> su, experience |-> ex,
          education |-> ed, skills |-> sk, additional_sections |-> ad])

Personal(n, e, p, l, li, g) ==
    Dict([name |-> n, email |-> e, phone |-> p, location |-> l, linkedin |-> li, github |-> g])

Experience(po, co, pe, de) ==
    Dict([position |-> po, company |-> co, period |-> pe, description |-> de])

Education(de, sc, pe) == Dict([degree |-> de, school |-> sc, period |-> pe])

Section(ti, co) == Dict([title |-> ti, content |-> co])

KeyValue(k, v) == Dict([key |-> k, value |-> v])

OptField(s) == {Absent, Str(s)}
OptText(s) == {Absent, Str(""), Str(s)}

PersonalInfos ==
    {Absent} \cup
    {Personal(n, e, p, l, li, g) :
        n \in OptField("N"), e \in OptText("e"), p \in OptField("p"),
        l \in OptField("l"), li \in OptField("li"), g \in OptField("g")}

\* the bullet lists: two texts taking turns, starting with either
BulletLists ==
    {[k \in 1..n |-> IF (k % 2 = 1) = (first = "b1") THEN "b1" ELSE "b2"] :
        n \in 0..MaxBullets, first \in {"b1", "b2"}}

Descriptions == OptText("D") \cup {List(b) : b \in BulletLists}

ExperienceEntries ==
    {Experience(po, co, Str("T"), List(<<"b1">>)) : po \in OptText("P"), co \in OptText("C")}
    \cup {Experience(Str("P"), Str("C"), pe, Str("D")) : pe \in OptText("T")}
    \cup {Experience(Str("P"), Str("C"), Str("T"), de) : de \in Descriptions}

EducationEntries ==
    {Education(de, sc, pe) : de \in OptField("B"), sc \in OptField("U"), pe \in OptText("Y")}

Sections ==
    {Section(ti, co) :
        ti \in OptField("T1"),
        co \in {Absent, Str("c"), List(<<>>), List(<<Str("a"), Str("b")>>),
                List(<<KeyValue(Str("k"), Str("v")), Str("a")>>),
                List(<<KeyValue(Absent, Absent)>>)}}

PlainPersonal == Personal(Str("N"), Str("e"), Absent, Str("l"), Absent, Absent)
PlainExperience == Experience(Str("P"), Str("C"), Str("T"), List(<<"b1", "b2">>))
PlainEducation == Education(Str("B"), Str("U"), Str("Y"))
PlainSection == Section(Str("T1"), List(<<Str("a")>>))
OtherSection == Section(Str("T2"), Str("c"))

PlainRecord ==
    Record(PlainPersonal, Str("S"), List(<<PlainExperience>>), List(<<PlainEducation>>),
           List(<<"k1", "k2">>), List(<<PlainSection>>))

With(rec, key, val) == Dict([rec.v EXCEPT ![key] = val])

\* the records: each family varies one part of the plain record, and the
\* last one varies which top-level fields are present
Records ==
    {With(PlainRecord, "personal_info", pi) : pi \in PersonalInfos}
    \cup {With(PlainRecord, "experience", List(ex)) :
             ex \in SeqsUpTo(ExperienceEntries, MaxExp)}
    \cup {With(PlainRecord, "education", List(<<ed>>)) : ed \in EducationEntries}
    \cup {With(PlainRecord, "additional_sections", List(<<se>>)) : se \in Sections}
    \cup {Record(PlainPersonal, su, ex, ed, sk, ad) :
             su \in OptText("S"),
             ex \in {Absent, List(<<>>), List(<<PlainExperience>>)},
             ed \in {Absent, List(<<>>), List(<<PlainEducation>>),
                     List(<<PlainEducation, Education(Absent, Absent, Absent)>>)},
             sk \in {Absent, Str(""), Str("s"), List(<<>>), List(<<"k1", "k2">>)},
             ad \in {Absent, List(<<>>), List(<<PlainSection>>),
                     List(<<OtherSection, PlainSection>>)}}

\* what may lie on the disk from an earlier run
OldFiles == {{}, {"docx"}, {"pdf"}, {"generated"}, {"docx", "pdf", "generated"}}

\* the runs: the command line and the environment vary for the plain
\* record, and the record varies for a plain command line
Inputs ==
    [output : OutputArgs, pdf : BOOLEAN, inputFile : {"missing", "badjson"},
     data : {PlainRecord}, old : OldFiles, docker : {FALSE}, docx2pdf : {FALSE}]
    \cup [output : OutputArgs, pdf : {FALSE}, inputFile : {"ok"},
          data : {PlainRecord}, old : OldFiles, docker : {FALSE}, docx2pdf : {FALSE}]
    \cup [output : OutputArgs, pdf : {TRUE}, inputFile : {"ok"},
          data : {PlainRecord}, old : OldFiles, docker : BOOLEAN, docx2pdf : BOOLEAN]
    \cup [output : {<<"r">>}, pdf : {FALSE}, inputFile : {"ok"}, data : Records,
          old : {{}}, docker : {FALSE}, docx2pdf : {FALSE}]

(* ------------------------------ the state ------------------------------ *)
VARIABLES
    args,          \* the parsed command line: [output, pdf]
    inputFile,     \* the input path: "missing", "badjson" or "ok"
    env,           \* what is installed: [docker, docx2pdf]
    data,          \* the JSON content of the input file
    disk,          \* the files that exist: absolute path -> content
    pc,            \* the position of the script
    output_file,   \* line 267
    pdf_file,      \* line 275
    doc,           \* the paragraphs of the Document, in order
    i,             \* the index of the running for loop
    stdout,        \* the printed messages, in order
    exitCode,      \* the exit status, -1 while the process runs
    pdfState,      \* the state of the PDF bridge
    dockerCalls,   \* calls of convert_docx_to_pdf_docker
    fallbackCalls  \* attempts of the docx2pdf conversion

vars == <<args, inputFile, env, data, disk, pc, output_file, pdf_file, doc, i, stdout,
          exitCode, pdfState, dockerCalls, fallbackCalls>>

Put(fs, path, content) ==
    [q \in DOMAIN fs \cup {path} |-> IF q = path THEN content ELSE fs[q]]

Remove(fs, path) == [q \in DOMAIN fs \ {path} |-> fs[q]]

exists(fs, path) == path \in DOMAIN fs

\* line 239: where convert_docx_to_pdf_docker looks for the produced PDF
generated_pdf(docx_file) ==
    LET docx_abs == abspath(docx_file)
    IN join(dirname(docx_abs), replace_docx_pdf(basename(docx_abs)))

\* the file the office suite writes for --convert-to pdf --outdir /convert:
\* the name of the document with its last extension replaced
libreoffice_output(docx_file) ==
    LET docx_abs == abspath(docx_file)
        docx_name == basename(docx_abs)
    IN join(dirname(docx_abs), SubSeq(docx_name, 1, Len(docx_name) - 1) \o <<PDF>>)

EmptyDisk == [q \in {} |-> ""]

PutIf(cond, fs, path, content) == IF cond THEN Put(fs, path, content) ELSE fs

\* the disk at the start of a run of the script
OldDisk(out, old) ==
    LET docx == normalize_output(out)
        d1 == PutIf("pdf" \in old, EmptyDisk, abspath(replace_docx_pdf(docx)), "pdf_stale")
        d2 == PutIf("generated" \in old, d1, generated_pdf(docx), "pdf_stale")
    IN PutIf("docx" \in old, d2, abspath(docx), "docx_old")

Init ==
    \E in \in Inputs :
        /\ args = [output |-> in.output, pdf |-> in.pdf]
        /\ inputFile = in.inputFile
        /\ env = [docker |-> in.docker, docx2pdf |-> in.docx2pdf]
        /\ data = in.data
        /\ disk = OldDisk(in.output, in.old)
        /\ pc = "args"
        /\ output_file = <<>>
        /\ pdf_file = <<>>
        /\ doc = <<>>
        /\ i = 0
        /\ stdout = <<>>
        /\ exitCode = -1
        /\ pdfState = "NotStarted"
        /\ dockerCalls = 0
        /\ fallbackCalls = 0

\* sys.exit(code), or an exception nobody catches (status 1)
Exit(code) == pc' = "done" /\ exitCode' = code

print(msgs) == stdout' = stdout \o msgs

(* ------------------------- the entry point, loader --------------------- *)
\* lines 264-269
ParseArgs ==
    /\ pc = "args"
    /\ output_file' = normalize_output(args.output)
    /\ pc' = "load"
    /\ UNCHANGED <<args, inputFile, env, data, disk, pdf_file, doc, i, stdout, exitCode,
                   pdfState, dockerCalls, fallbackCalls>>

\* a variant of Load that goes on with an empty record after a JSON error
Load_keeps_going ==
    /\ pc = "load"
    /\ CASE inputFile = "missing" ->
              print(<<"input_not_found", "create_input_hint">>) /\ Exit(1)
         [] inputFile = "badjson" ->
              print(<<"json_error">>) /\ pc' = "heading" /\ UNCHANGED exitCode
         [] inputFile = "ok" ->
              pc' = "heading" /\ UNCHANGED <<stdout, exitCode>>
    /\ UNCHANGED <<args, inputFile, env, data, disk, output_file, pdf_file, doc, i,
                   pdfState, dockerCalls, fallbackCalls>>

\* lines 70-88: the load, and the empty Document
Load ==
    /\ pc = "load"
    /\ CASE inputFile = "missing" ->
              print(<<"input_not_found", "create_input_hint">>) /\ Exit(1)
         [] inputFile = "badjson" ->
              print(<<"json_error">>) /\ Exit(1)
         [] inputFile = "ok" ->
              pc' = "heading" /\ UNCHANGED <<stdout, exitCode>>
    /\ UNCHANGED <<args, inputFile, env, data, disk, output_file, pdf_file, doc, i,
                   pdfState, dockerCalls, fallbackCalls>>

(* ----------------------------- the assembler --------------------------- *)
Assemble(paras, next, idx) ==
    /\ doc' = doc \o paras
    /\ pc' = next
    /\ i' = idx
    /\ UNCHANGED <<args, inputFile, env, data, disk, output_file, pdf_file, stdout, exitCode,
                   pdfState, dockerCalls, fallbackCalls>>

\* lines 90-92
NameHeading == pc = "heading" /\ Assemble(name_heading(data), "contact", i)

\* lines 94-114
Contact == pc = "contact" /\ Assemble(contact_block(data), "summary", i)

\* lines 116-120
Summary == pc = "summary" /\ Assemble(summary_block(data), "experience", i)

\* lines 123-124: the section header, when there is something to list
ExperienceHeader ==
    /\ pc = "experience"
    /\ IF truthy(get1(data, "experience"))
       THEN Assemble(<<add_section_header(<<"Experience">>, "experience", 0)>>,
                     "experience_loop", 1)
       ELSE Assemble(<<>>, "education", i)

\* lines 125-147: one experience entry
ExperienceEntry ==
    /\ pc = "experience_loop"
    /\ Assemble(experience_entry(data.v.experience.v[i], i),
                IF i = Len(data.v.experience.v) THEN "education" ELSE "experience_loop",
                i + 1)

\* lines 150-151
EducationHeader ==
    /\ pc = "education"
    /\ IF truthy(get1(data, "education"))
       THEN Assemble(<<add_section_header(<<"Education">>, "education", 0)>>,
                     "education_loop", 1)
       ELSE Assemble(<<>>, "skills", i)

\* lines 152-166: one education entry
EducationEntry ==
    /\ pc = "education_loop"
    /\ Assemble(education_entry(data.v.education.v[i], i),
                IF i = Len(data.v.education.v) THEN "skills" ELSE "education_loop",
                i + 1)

\* lines 169-176: the skills, and whether there are additional sections
Skills ==
    /\ pc = "skills"
    /\ IF truthy(get1(data, "additional_sections"))
       THEN Assemble(skills_block(data), "additional_loop", 1)
       ELSE Assemble(skills_block(data), "save", i)

\* lines 177-194: one additional section
AdditionalSection ==
    /\ pc = "additional_loop"
    /\ Assemble(additional_section(data.v.additional_sections.v[i], i),
                IF i = Len(data.v.additional_sections.v) THEN "save" ELSE "additional_loop",
                i + 1)

\* lines 197-198: doc.save; an error of the write is not caught
Save ==
    /\ pc = "save"
    /\ \/ /\ disk' = Put(disk, abspath(output_file), "docx_new")
          /\ print(<<"resume_created">>)
          /\ pc' = "pdf"
          /\ UNCHANGED exitCode
       \/ /\ disk' \in {disk, Put(disk, abspath(output_file), "docx_partial")}
          /\ Exit(1)
          /\ UNCHANGED stdout
    /\ UNCHANGED <<args, inputFile, env, data, output_file, pdf_file, doc, i,
                   pdfState, dockerCalls, fallbackCalls>>

(* ------------------------------ the PDF bridge ------------------------- *)
UNCHANGED_INPUT == UNCHANGED <<args, inputFile, env, data, output_file, doc, i>>

\* lines 280-283: the handler of a failed container attempt
DockerFailed(error) ==
    /\ print(<<error, "trying_docx2pdf">>)
    /\ pc' = "fallback_import"
    /\ pdfState' = "TriedFallback"
    /\ UNCHANGED exitCode

\* lines 274-278: without --pdf the script ends here
StartPdf ==
    /\ pc = "pdf"
    /\ IF args.pdf
       THEN /\ pdf_file' = replace_docx_pdf(output_file)
            /\ pc' = "docker_which"
            /\ pdfState' = "TriedContainer"
            /\ dockerCalls' = dockerCalls + 1
            /\ UNCHANGED exitCode
       ELSE /\ Exit(0)
            /\ UNCHANGED <<pdf_file, pdfState, dockerCalls>>
    /\ UNCHANGED <<disk, stdout, fallbackCalls>>
    /\ UNCHANGED_INPUT

\* a variant of CheckDocker where a missing engine ends the process
CheckDocker_fatal ==
    /\ pc = "docker_which"
    /\ IF env.docker
       THEN pc' = "docker_run" /\ UNCHANGED <<stdout, pdfState, exitCode>>
       ELSE /\ print(<<"docker_failed: not on PATH">>)
            /\ Exit(1)
            /\ UNCHANGED pdfState
    /\ UNCHANGED <<disk, pdf_file, dockerCalls, fallbackCalls>>
    /\ UNCHANGED_INPUT

\* lines 203-214: shutil.which('docker')
CheckDocker ==
    /\ pc = "docker_which"
    /\ IF env.docker
       THEN pc' = "docker_run" /\ UNCHANGED <<stdout, pdfState, exitCode>>
       ELSE DockerFailed("docker_failed: not on PATH")
    /\ UNCHANGED <<disk, pdf_file, dockerCalls, fallbackCalls>>
    /\ UNCHANGED_INPUT

\* lines 217-235 and 246-250: the container run.  Exit status 0 says nothing
\* about the file: the office suite may have written it or not.
RunContainer ==
    /\ pc = "docker_run"
    /\ \E outcome \in {"written", "nothing", "nonzero", "enoent"} :
          CASE outcome = "written" ->
                 /\ disk' = Put(disk, libreoffice_output(output_file), "pdf_new")
                 /\ pc' = "docker_move"
                 /\ UNCHANGED <<stdout, pdfState, exitCode>>
            [] outcome = "nothing" ->
                 /\ pc' = "docker_move"
                 /\ UNCHANGED <<disk, stdout, pdfState, exitCode>>
            [] outcome = "nonzero" ->
                 /\ DockerFailed("docker_failed: conversion error")
                 /\ UNCHANGED disk
            [] outcome = "enoent" ->
                 /\ DockerFailed("docker_failed: not found")
                 /\ UNCHANGED disk
    /\ UNCHANGED <<pdf_file, dockerCalls, fallbackCalls>>
    /\ UNCHANGED_INPUT

\* line 279
PdfCreated ==
    /\ print(<<"pdf_created">>)
    /\ pdfState' = "Succeeded"
    /\ Exit(0)

\* lines 239-245 and 279: the move to the requested path.  os.rename fails
\* with FileNotFoundError when the target directory is missing, which line
\* 249 turns into a RuntimeError; another OSError is not caught.
Relocate ==
    /\ pc = "docker_move"
    /\ LET generated == generated_pdf(output_file)
           pdf_abs == abspath(pdf_file)
       IN IF exists(disk, generated) /\ generated # pdf_abs
          THEN \/ /\ disk' = Put(Remove(Remove(disk, pdf_abs), generated), pdf_abs,
                                 disk[generated])
                  /\ PdfCreated
               \/ /\ ~exists(disk, pdf_abs)
                  /\ DockerFailed("docker_failed: not found")
                  /\ UNCHANGED disk
               \/ /\ disk' \in {disk, Remove(disk, pdf_abs)}
                  /\ Exit(1)
                  /\ UNCHANGED <<stdout, pdfState>>
          ELSE PdfCreated /\ UNCHANGED disk
    /\ UNCHANGED <<pdf_file, dockerCalls, fallbackCalls>>
    /\ UNCHANGED_INPUT

\* a variant of ImportDocx2pdf without the except ImportError clause: the
\* general handler of line 293 reports the failed import
ImportDocx2pdf_general_handler ==
    /\ pc = "fallback_import"
    /\ fallbackCalls' = fallbackCalls + 1
    /\ IF env.docx2pdf
       THEN pc' = "fallback_convert" /\ UNCHANGED <<stdout, pdfState, exitCode>>
       ELSE /\ print(<<"conversion_error", "recommendations", "rec_install_docker",
                       "rec_pull_image", "rec_libreoffice_docx2pdf">>)
            /\ pdfState' = "Failed"
            /\ Exit(1)
    /\ UNCHANGED <<disk, pdf_file, dockerCalls>>
    /\ UNCHANGED_INPUT

\* lines 284-285 and 288-292: from docx2pdf import convert
ImportDocx2pdf ==
    /\ pc = "fallback_import"
    /\ fallbackCalls' = fallbackCalls + 1
    /\ IF env.docx2pdf
       THEN pc' = "fallback_convert" /\ UNCHANGED <<stdout, pdfState, exitCode>>
       ELSE /\ print(<<"pdf_needs", "option_docker_image", "option_docx2pdf">>)
            /\ pdfState' = "Failed"
            /\ Exit(1)
    /\ UNCHANGED <<disk, pdf_file, dockerCalls>>
    /\ UNCHANGED_INPUT

\* lines 286-287 and 293-299: convert(output_file, pdf_file)
Convert ==
    /\ pc = "fallback_convert"
    /\ \/ /\ disk' = Put(disk, abspath(pdf_file), "pdf_new")
          /\ PdfCreated
       \/ /\ print(<<"conversion_error", "recommendations", "rec_install_docker",
                    "rec_pull_image", "rec_libreoffice_docx2pdf">>)
          /\ pdfState' = "Failed"
          /\ Exit(1)
          /\ UNCHANGED disk
    /\ UNCHANGED <<pdf_file, dockerCalls, fallbackCalls>>
    /\ UNCHANGED_INPUT

Next ==
    \/ ParseArgs
    \/ Load
    \/ NameHeading
    \/ Contact
    \/ Summary
    \/ ExperienceHeader
    \/ ExperienceEntry
    \/ EducationHeader
    \/ EducationEntry
    \/ Skills
    \/ AdditionalSection
    \/ Save
    \/ StartPdf
    \/ CheckDocker
    \/ RunContainer
    \/ Relocate
    \/ ImportDocx2pdf
    \/ Convert

Spec == Init /\ [][Next]_vars

(* ------------------------------ properties ----------------------------- *)
Range(f) == {f[k] : k \in DOMAIN f}

Printed(msg) == msg \in Range(stdout)

\* the assembler has appended everything and the load succeeded
Assembled == inputFile = "ok" /\ pc \notin {"args", "load", "heading", "contact", "summary",
                 "experience", "experience_loop", "education", "education_loop",
                 "skills", "additional_loop"}

\* a field is present and non-empty
Populated(x) == x \notin {Absent, Str(""), List(<<>>)}

IsSectionHeader(p) ==
    /\ p.style = "Normal" /\ Len(p.runs) = 1
    /\ p.runs[1].size = 14 /\ p.runs[1].bold /\ p.runs[1].color = NAVY

IsBlank(p) == p.style = "Normal" /\ p.runs = <<>>

IsPrefix(s, t) == Len(s) <= Len(t) /\ SubSeq(t, 1, Len(s)) = s

\* the position of a block in the fixed order of the document
BlockRank(p) ==
    CASE p.sec = "name" -> 1
      [] p.sec = "contact" -> 2
      [] p.sec = "spacer" -> 3
      [] p.sec = "summary" -> 4
      [] p.sec = "experience" -> 5
      [] p.sec = "education" -> 6
      [] p.sec = "skills" -> 7
      [] p.sec = "additional" -> 8

HeaderTexts(d) ==
    LET heads == SelectSeq(d, IsSectionHeader)
    IN [k \in 1..Len(heads) |-> heads[k].runs[1].text]

ExpectedHeaders(rec) ==
    LET one(key, title) == IF Populated(rec.v[key]) THEN <<(<<title>>)>> ELSE <<>>
        ad == rec.v.additional_sections
        titles == IF Populated(ad)
                  THEN [k \in 1..Len(ad.v) |->
                           <<IF ad.v[k].v.title = Absent THEN "Section"
                             ELSE ad.v[k].v.title.v>>]
                  ELSE <<>>
    IN one("summary", "About") \o one("experience", "Experience")
       \o one("education", "Education") \o one("skills", "Skills") \o titles

C1_StateOrder ==
    /\ \A j \in 1..Len(doc) : \A k \in j..Len(doc) : BlockRank(doc[j]) <= BlockRank(doc[k])
    /\ (inputFile = "ok" /\ pc \notin {"args", "load", "heading"}) =>
          /\ doc[1].style = "Heading 1"
          /\ \A k \in 2..Len(doc) : doc[k].style # "Heading 1"
    /\ Assembled => HeaderTexts(doc) = ExpectedHeaders(data)

\* C1: the blocks are appended in the fixed order name heading, contact line,
\* summary, experience, education, skills, additional sections; there is
\* exactly one name heading, one section header for each of summary,
\* experience, education and skills exactly when that field is present and
\* non-empty, one header per additional section in source order, and the
\* document only ever grows at its end.
C1_BlockOrder == [](C1_StateOrder) /\ [][IsPrefix(doc, doc')]_vars

C1_Witness ==
    /\ pc = "done" /\ exitCode = 0
    /\ \A key \in {"summary", "experience", "education", "skills"} : Populated(data.v[key])
    /\ Populated(data.v.additional_sections) /\ Len(data.v.additional_sections.v) = 2
    /\ Len(HeaderTexts(doc)) = 6

\* the contact fields in their fixed order, with their labels
ContactKeys == <<"email", "phone", "location", "linkedin", "github">>
ContactLabel ==
    [email |-> "Email: ", phone |-> "Phone: ", location |-> "Location: ",
     linkedin |-> "LinkedIn: ", github |-> "GitHub: "]

PresentContacts(rec) ==
    IF rec.v.personal_info = Absent THEN <<>>
    ELSE SelectSeq(ContactKeys, LAMBDA key : Populated(rec.v.personal_info.v[key]))

Count(text, piece) == Cardinality({k \in 1..Len(text) : text[k] = piece})

\* the paragraphs between the name heading and the first section
ContactPart(d) == SelectSeq(d, LAMBDA p : BlockRank(p) \in {2, 3})

\* C6: the contact line is one paragraph joining exactly the present contact
\* fields, in the fixed order, with " | ": one separator fewer than fields,
\* none leading, trailing or doubled; with no contact field present the
\* contact stage appends only the blank line that always follows it.
C6_ContactLine ==
    (inputFile = "ok" /\ pc \notin {"args", "load", "heading", "contact"}) =>
        LET present == PresentContacts(data)
            part == ContactPart(doc)
        IN IF present = <<>>
           THEN Len(part) = 1 /\ IsBlank(part[1]) /\ IsBlank(doc[2])
           ELSE /\ Len(part) = 2 /\ IsBlank(part[2]) /\ doc[2] = part[1]
                /\ Len(part[1].runs) = 1
                /\ LET text == part[1].runs[1].text
                   IN /\ Count(text, BAR) = Len(present) - 1
                      /\ text[1] # BAR /\ text[Len(text)] # BAR
                      /\ \A k \in 1..(Len(text) - 1) : ~(text[k] = BAR /\ text[k + 1] = BAR)
                      /\ SelectSeq(text, LAMBDA x : x \in Range(ContactLabel))
                            = [k \in 1..Len(present) |-> ContactLabel[present[k]]]
                      /\ \A k \in 1..Len(present) :
                            \E j \in 1..(Len(text) - 1) :
                               /\ text[j] = ContactLabel[present[k]]
                               /\ text[j + 1] = data.v.personal_info.v[present[k]].v

C6_Witness ==
    /\ pc = "done"
    /\ PresentContacts(data) = <<"phone", "github">>
    /\ data.v.personal_info.v.email = Str("")
    /\ Count(doc[2].runs[1].text, BAR) = 1

(* experience entries *)
IsTitleLine(p) ==
    /\ p.style = "Normal" /\ Len(p.runs) = 1
    /\ p.runs[1].size = 12 /\ p.runs[1].bold /\ ~p.runs[1].italic

IsPeriodLine(p) ==
    /\ p.style = "Normal" /\ Len(p.runs) = 1
    /\ p.runs[1].size = 10 /\ p.runs[1].italic /\ p.runs[1].color = GRAY

IsPlainParagraph(p, text) ==
    /\ p.style = "Normal" /\ Len(p.runs) = 1
    /\ p.runs[1] = [text |-> text, size |-> 11, bold |-> FALSE, italic |-> FALSE,
                    color |-> NoColor]

IsBullet(p, text) ==
    /\ p.style = "List Bullet" /\ Len(p.runs) = 1 /\ p.runs[1].text = text
    /\ p.runs[1].size = 11

\* the experience section is complete
ExperienceDone == inputFile = "ok" /\ pc \notin {"args", "load", "heading", "contact",
                      "summary", "experience", "experience_loop"}

\* the paragraphs of the experience section after its header
ExperiencePart(d) == SelectSeq(d, LAMBDA p : p.sec = "experience" /\ ~IsSectionHeader(p))

\* the paragraphs rendered from entry k
EntryPart(d, k) == SelectSeq(d, LAMBDA p : p.sec = "experience" /\ p.idx = k)

HasPeriodLine(c) == Len(c) >= 2 /\ IsPeriodLine(c[2])

DescriptionPart(c) == SubSeq(c, IF HasPeriodLine(c) THEN 3 ELSE 2, Len(c) - 1)

\* the description paragraphs d render the description de; emptyString says
\* how many paragraphs an empty string gives
DescriptionRendered(d, de, emptyString) ==
    CASE de.t = "absent" -> d = <<>>
      [] de.t = "list" ->
           /\ Len(d) = Len(de.v)
           /\ \A k \in 1..Len(d) : IsBullet(d[k], <<de.v[k]>>)
      [] de.t = "str" ->
           IF de.v = "" /\ emptyString = 0 THEN d = <<>>
           ELSE Len(d) = 1 /\ IsPlainParagraph(d[1], <<de.v>>)

\* entries in source order, not interleaved, each a title line, at most one
\* period line, the description and one trailing blank paragraph
EntriesRendered(emptyString) ==
    (ExperienceDone /\ Populated(data.v.experience)) =>
        LET entries == data.v.experience.v
            part == ExperiencePart(doc)
        IN /\ \A j \in 1..Len(part) : \A k \in j..Len(part) : part[j].idx <= part[k].idx
           /\ \A p \in Range(part) : p.idx \in 1..Len(entries)
           /\ \A k \in 1..Len(entries) :
                 LET c == EntryPart(doc, k)
                 IN /\ Len(c) >= 2
                    /\ IsTitleLine(c[1])
                    /\ IsBlank(c[Len(c)])
                    /\ \A j \in 1..(Len(c) - 1) : ~IsBlank(c[j])
                    /\ \A j \in 3..Len(c) : ~IsPeriodLine(c[j])
                    /\ \A j \in 2..Len(c) : ~IsTitleLine(c[j])
                    /\ DescriptionRendered(DescriptionPart(c), entries[k].v.description,
                                           emptyString)

\* C7 as stated: every experience entry renders a position/company line, at
\* most one period line, its description and exactly one trailing blank
\* paragraph; n strings give n bullets in order and a single string, empty
\* or not, gives exactly one plain paragraph; entries keep the source order
\* and never interleave.
C7_AnyStringOneParagraph == EntriesRendered(1)

\* C7 amended: as above, but a single string gives exactly one plain
\* paragraph only when it is non-empty; an empty string gives none.
C7_EntryLayout == EntriesRendered(0)

C7_Witness ==
    /\ pc = "done"
    /\ Populated(data.v.experience) /\ Len(data.v.experience.v) = 2
    /\ data.v.experience.v[1].v.description = List(<<"b2", "b1">>)
    /\ data.v.experience.v[2].v.description = Str("D")
    /\ Len(EntryPart(doc, 1)) = 5 /\ Len(EntryPart(doc, 2)) = 4

\* the text of a field that is missing or empty gives way to the placeholder
OrPlaceholder(x, placeholder) == IF Populated(x) THEN x.v ELSE placeholder

\* C8 as stated: missing position, company or period use placeholder text
\* rather than omitting the line; the position/company line always renders
\* and shows the placeholders when position and/or company are absent or an
\* empty string.
C8_PlaceholdersForEmpty ==
    (ExperienceDone /\ Populated(data.v.experience)) =>
        \A k \in 1..Len(data.v.experience.v) :
            LET exp == data.v.experience.v[k].v
                c == EntryPart(doc, k)
            IN /\ Len(c) >= 2
               /\ IsTitleLine(c[1])
               /\ c[1].runs[1].text = <<OrPlaceholder(exp.position, "Position"), BAR,
                                        OrPlaceholder(exp.company, "Company")>>
               /\ HasPeriodLine(c)

\* C8 amended: the position/company line always renders; a position or a
\* company whose key is absent shows its placeholder, one that is an empty
\* string is rendered as the empty string; a period that is absent or empty
\* has no placeholder and its line is omitted.
C8_PlaceholdersForAbsent ==
    (ExperienceDone /\ Populated(data.v.experience)) =>
        \A k \in 1..Len(data.v.experience.v) :
            LET exp == data.v.experience.v[k].v
                c == EntryPart(doc, k)
                shown(x, placeholder) == IF x = Absent THEN placeholder ELSE x.v
            IN /\ Len(c) >= 2
               /\ IsTitleLine(c[1])
               /\ c[1].runs[1].text = <<shown(exp.position, "Position"), BAR,
                                        shown(exp.company, "Company")>>
               /\ HasPeriodLine(c) <=> Populated(exp.period)
               /\ HasPeriodLine(c) => c[2].runs[1].text = <<exp.period.v>>

C8_Witness ==
    /\ pc = "done"
    /\ Populated(data.v.experience) /\ Len(data.v.experience.v) = 2
    /\ data.v.experience.v[1].v.position = Absent
    /\ data.v.experience.v[1].v.company = Str("")
    /\ data.v.experience.v[2].v.period = Absent
    /\ EntryPart(doc, 1)[1].runs[1].text = <<"Position", BAR, "">>
    /\ ~HasPeriodLine(EntryPart(doc, 2))

(* the PDF bridge *)
\* the document of this run is on the disk
Written == exists(disk, abspath(output_file)) /\ disk[abspath(output_file)] = "docx_new"

ContainerFailed ==
    \E m \in {"docker_failed: not on PATH", "docker_failed: conversion error",
              "docker_failed: not found"} : Printed(m)

BridgeStep(from, to) ==
    \/ from = to
    \/ from = "NotStarted" /\ to = "TriedContainer"
    \/ from = "TriedContainer" /\ to \in {"Succeeded", "TriedFallback"}
    \/ from = "TriedFallback" /\ to \in {"Succeeded", "Failed"}

C2_StateBridge ==
    /\ dockerCalls <= 1 /\ fallbackCalls <= 1
    /\ fallbackCalls = 1 => (dockerCalls = 1 /\ ContainerFailed)
    /\ pdfState \in {"TriedFallback", "Failed"} => ContainerFailed
    /\ (~args.pdf \/ ~Written) =>
          (dockerCalls = 0 /\ fallbackCalls = 0 /\ pdfState = "NotStarted")

\* a step of the engine check or of the container run never ends the
\* process, and when it reports a failure the fallback is next
C2_FailureGoesOn ==
    /\ pc \in {"docker_which", "docker_run"} =>
          /\ exitCode' = -1
          /\ pc' \in {"docker_which", "docker_run", "docker_move", "fallback_import"}
          /\ (Len(stdout') > Len(stdout)) =>
                (pc' = "fallback_import" /\ pdfState' = "TriedFallback")
    /\ pc = "fallback_import" => fallbackCalls' = 1

\* C2: the bridge only moves forward NotStarted -> TriedContainer ->
\* (Succeeded | TriedFallback -> (Succeeded | Failed)); each attempt is made
\* at most once, the fallback only after the container attempt failed; a
\* container engine that is not reachable or a failed container run leads
\* to the fallback attempt and never ends the process; nothing is attempted
\* without --pdf or without the written document.
C2_BridgeForward ==
    /\ [](C2_StateBridge)
    /\ [][BridgeStep(pdfState, pdfState')]_vars
    /\ [][C2_FailureGoesOn]_vars

C2_Witness ==
    /\ pc = "done" /\ pdfState = "Succeeded"
    /\ dockerCalls = 1 /\ fallbackCalls = 1
    /\ Printed("docker_failed: conversion error")

\* C3: with a missing input file or invalid JSON the process ends with a
\* nonzero status before a document exists: the disk is never touched, the
\* document stays empty and no conversion is attempted, --pdf or not.
C3_LoadFailure ==
    /\ [](inputFile # "ok" =>
             /\ pc \in {"args", "load", "done"}
             /\ pc = "done" => exitCode # 0
             /\ doc = <<>> /\ dockerCalls = 0 /\ fallbackCalls = 0
             /\ pdfState = "NotStarted" /\ ~Printed("resume_created"))
    /\ [][inputFile # "ok" => disk' = disk]_vars

C3_Witness ==
    /\ inputFile = "badjson" /\ pc = "done" /\ exitCode = 1 /\ args.pdf
    /\ exists(disk, abspath(output_file)) /\ disk[abspath(output_file)] = "docx_old"
    /\ Printed("json_error")

\* C5: with --pdf, no container engine on PATH and no fallback library the
\* process exits nonzero, having printed both remedies and no success
\* message for the PDF.
C5_NoConverter ==
    (pc = "done" /\ args.pdf /\ Written /\ ~env.docker /\ ~env.docx2pdf) =>
        /\ exitCode # 0
        /\ Printed("option_docker_image") /\ Printed("option_docx2pdf")
        /\ ~Printed("pdf_created")

C5_Witness ==
    /\ pc = "done" /\ args.pdf /\ Written /\ ~env.docker /\ ~env.docx2pdf
    /\ exitCode = 1 /\ Printed("docker_failed: not on PATH") /\ Printed("pdf_needs")

\* the PDF of this run is at the requested path
PdfProduced == exists(disk, abspath(pdf_file)) /\ disk[abspath(pdf_file)] = "pdf_new"

\* C4: the exit status is 0 when the load, the write and (with --pdf) the
\* conversion succeed, and nonzero on a load error, on a write error and,
\* with --pdf, whenever neither attempt produced the PDF.
C4_ExitStatus ==
    pc = "done" =>
        /\ inputFile # "ok" => exitCode # 0
        /\ ~Written => exitCode # 0
        /\ (args.pdf /\ ~PdfProduced) => exitCode # 0
        /\ (inputFile = "ok" /\ Written /\ (args.pdf => Printed("pdf_created"))) => exitCode = 0

\* C9: the document path is the -o value with .docx appended exactly once
\* when it is missing, unchanged otherwise (normalising twice is normalising
\* once); the PDF path is the document path with only its trailing extension
\* replaced, so it lies in the same directory.
C9_DerivedPaths ==
    /\ pc # "args" =>
          /\ output_file = IF endswith_docx(args.output) THEN args.output
                           ELSE args.output \o <<DOCX>>
          /\ normalize_output(output_file) = output_file
    /\ pdf_file # <<>> =>
          /\ pdf_file = SubSeq(output_file, 1, Len(output_file) - 1) \o <<PDF>>
          /\ dirname(abspath(pdf_file)) = dirname(abspath(output_file))

\* C10: when the success message for the PDF follows the container attempt,
\* a PDF written by this run is at the requested PDF path.
C10_SuccessHasPdf ==
    (Printed("pdf_created") /\ fallbackCalls = 0) => PdfProduced

====
